---- MODULE Spec2Model ----
(***************************************************************************)
(* Error propagation in the Express application ErrorHandlingIllustration: *)
(* the middleware stack, the catchAsync wrapper, the route handlers and    *)
(* the centralized error-handling middleware.                              *)
(*                                                                         *)
(* A JavaScript string is a sequence of tokens (concatenation is \o), so   *)
(* that joins, template strings and "contains" are computed, not assumed.  *)
(***************************************************************************)
EXTENDS Integers, Sequences, FiniteSets, TLC

\* Number of requests that may be in flight in one behaviour.
NumReq == 2

Reqs == 1..NumReq

----------------------------------------------------------------------------
\* JavaScript values: undefined, numbers and strings.

Undef == [t |-> "undefined", n |-> 0, s |-> <<>>]

Num(k) == [t |-> "number", n |-> k, s |-> <<>>]

Str(toks) == [t |-> "string", n |-> 0, s |-> toks]

\* JavaScript truthiness, as used by `||`.
Truthy(v) ==
    CASE v.t = "undefined" -> FALSE
      [] v.t = "number"    -> v.n # 0
      [] v.t = "string"    -> v.s # <<>>

\* a || b
Or(a, b) == IF Truthy(a) THEN a ELSE b

\* v === 'name'
IsStr(v, name) == v.t = "string" /\ v.s = <<name>>

\* v === k
IsNum(v, k) == v.t = "number" /\ v.n = k

\* The text an element contributes to Array.prototype.join.
JoinText(v) == IF v.t = "string" THEN v.s ELSE <<>>

RECURSIVE Join(_, _)
\* Array.prototype.join over a sequence of JavaScript values.
Join(vals, sep) ==
    IF Len(vals) = 0 THEN <<>>
    ELSE IF Len(vals) = 1 THEN JoinText(vals[1])
    ELSE JoinText(vals[1]) \o sep \o Join(Tail(vals), sep)

----------------------------------------------------------------------------
\* Error values: a bag of fields of arbitrary shape.

NoErrors == [defined |-> FALSE, entries |-> <<>>]

NoKeyValue == [defined |-> FALSE, keys |-> <<>>]

\* The absent error (next() called without an argument).
NoErr ==
    [present |-> FALSE, name |-> Undef, message |-> Undef, code |-> Undef,
     statusCode |-> Undef, isOperational |-> FALSE,
     errors |-> NoErrors, keyValue |-> NoKeyValue]

\* new Error(message)
Error(msg) ==
    [NoErr EXCEPT !.present = TRUE, !.name = Str(<<"Error">>), !.message = msg]

\* new AppError(message, statusCode)
AppError(message, statusCode) ==
    [Error(message) EXCEPT !.statusCode = statusCode, !.isOperational = TRUE]

\* The TypeError raised by Object.values(undefined).
TypeError ==
    [Error(Str(<<"Cannot convert undefined or null to object">>))
        EXCEPT !.name = Str(<<"TypeError">>)]

----------------------------------------------------------------------------
\* The centralized error-handling middleware, as a function of err.
\* A classification in progress is [threw, error, original]: the working
\* `error` variable, or the fact that a statement threw, and the object err
\* refers to as the statements so far have left it.

\* let error = Object.assign({}, err): the own enumerable properties; the
\* message of an Error object is not enumerable and is not copied.
ObjectAssign(err) == [err EXCEPT !.message = Undef]

\* Faulty variant: the copy without line 114, so the message is lost.
ShallowCopy_WithoutMessage(err) == ObjectAssign(err)

\* Lines 113-114: the shallow copy, then error.message = err.message.
ShallowCopy(err) == [ObjectAssign(err) EXCEPT !.message = err.message]

\* Faulty variant: the CastError rule answers 404.
CastErrorRule_404(err, st) ==
    IF ~st.threw /\ IsStr(err.name, "CastError")
    THEN [st EXCEPT !.error = AppError(Str(<<"Invalid ID format">>), Num(404))]
    ELSE st

\* Faulty variant: the rule rewrites err in place instead of building a new
\* AppError.
CastErrorRule_InPlace(err, st) ==
    IF ~st.threw /\ IsStr(err.name, "CastError")
    THEN LET rewritten == [st.original EXCEPT !.message = Str(<<"Invalid ID format">>),
                                              !.statusCode = Num(400)]
         IN  [st EXCEPT !.original = rewritten, !.error = rewritten]
    ELSE st

\* 1) CastError -> invalid ObjectId
CastErrorRule(err, st) ==
    IF ~st.threw /\ IsStr(err.name, "CastError")
    THEN [st EXCEPT !.error = AppError(Str(<<"Invalid ID format">>), Num(400))]
    ELSE st

\* Object.values(err.errors).map(e => e.message)
FieldMessages(errors) == [i \in 1..Len(errors.entries) |-> errors.entries[i].message]

\* Faulty variant: the messages are joined with ', '.
ValidationErrorRule_CommaJoin(err, st) ==
    IF ~st.threw /\ IsStr(err.name, "ValidationError")
    THEN IF ~err.errors.defined
         THEN [st EXCEPT !.threw = TRUE]
         ELSE [st EXCEPT !.error =
                  AppError(Str(Join(FieldMessages(err.errors), <<", ">>)), Num(400))]
    ELSE st

\* 2) ValidationError -> schema validation failed
ValidationErrorRule(err, st) ==
    IF ~st.threw /\ IsStr(err.name, "ValidationError")
    THEN IF ~err.errors.defined
         THEN [st EXCEPT !.threw = TRUE]
         ELSE [st EXCEPT !.error =
                  AppError(Str(Join(FieldMessages(err.errors), <<". ">>)), Num(400))]
    ELSE st

\* err.keyValue || {}
OrEmptyObject(keyValue) ==
    IF keyValue.defined THEN keyValue ELSE [defined |-> TRUE, keys |-> <<>>]

\* Object.keys(err.keyValue || {})
KeysOf(keyValue) ==
    LET obj == OrEmptyObject(keyValue)
    IN  [i \in 1..Len(obj.keys) |-> Str(<<obj.keys[i]>>)]

\* Faulty variant: only the first key of keyValue is named.
DuplicateKeyRule_FirstKey(err, st) ==
    IF ~st.threw /\ IsNum(err.code, 11000)
    THEN [st EXCEPT !.error =
             AppError(Str(<<"Duplicate field value: ">>
                            \o JoinText(IF KeysOf(err.keyValue) = <<>> THEN Undef
                                        ELSE KeysOf(err.keyValue)[1])),
                      Num(400))]
    ELSE st

\* 3) Duplicate key error (E11000)
DuplicateKeyRule(err, st) ==
    IF ~st.threw /\ IsNum(err.code, 11000)
    THEN [st EXCEPT !.error =
             AppError(Str(<<"Duplicate field value: ">>
                            \o Join(KeysOf(err.keyValue), <<", ">>)), Num(400))]
    ELSE st

\* Faulty variant: the check is an `else if` of the duplicate key check.
DocumentNotFoundRule_ElseIf(err, st) ==
    IF ~st.threw /\ ~IsNum(err.code, 11000) /\ IsStr(err.name, "DocumentNotFoundError")
    THEN [st EXCEPT !.error =
             AppError(Str(<<"Requested document not found">>), Num(404))]
    ELSE st

\* 4) DocumentNotFoundError (from .orFail())
DocumentNotFoundRule(err, st) ==
    IF ~st.threw /\ IsStr(err.name, "DocumentNotFoundError")
    THEN [st EXCEPT !.error =
             AppError(Str(<<"Requested document not found">>), Num(404))]
    ELSE st

\* Lines 113-141: the copy and the four sequential checks.
Classify(err) ==
    DocumentNotFoundRule(err,
      DuplicateKeyRule(err,
        ValidationErrorRule(err,
          CastErrorRule(err, [threw |-> FALSE, error |-> ShallowCopy(err),
                              original |-> err]))))

\* const statusCode = error.statusCode || 500
StatusCodeOf(error) == Or(error.statusCode, Num(500))

\* Faulty variant: no fallback message.
MessageOf_NoFallback(error) == error.message

\* message: error.message || 'Something went wrong'
MessageOf(error) == Or(error.message, Str(<<"Something went wrong">>))

\* A response as the client sees it: the status line and the body's fields.
Response(kind, by, status, fields, statusCode, message) ==
    [kind |-> kind, by |-> by, status |-> status, fields |-> fields,
     statusCode |-> statusCode, message |-> message]

\* res.status(statusCode).json({ statusCode, message })
ErrorResponse(error) ==
    Response("json", "errorMiddleware", StatusCodeOf(error),
             {"statusCode", "message"}, StatusCodeOf(error), MessageOf(error))

----------------------------------------------------------------------------
\* The application: the middleware stack in registration order.

Layer(kind, method, path, handler, wrapped) ==
    [kind |-> kind, method |-> method, path |-> path,
     handler |-> handler, wrapped |-> wrapped]

\* app.use / app.get / app.post / app.all, lines 41-110.  A path is its
\* sequence of segments; `wrapped` marks a handler passed through catchAsync.
Stack ==
    << Layer("use",   "ALL",  <<"*">>,              "expressJson",     FALSE),
       Layer("use",   "ALL",  <<"*">>,              "logger",          FALSE),
       Layer("route", "GET",  <<>>,                 "root",            FALSE),
       Layer("route", "GET",  <<"error-throw">>,    "errorThrow",      FALSE),
       Layer("route", "GET",  <<"next-error">>,     "nextError",       FALSE),
       Layer("route", "GET",  <<"async-bad">>,      "asyncBad",        FALSE),
       Layer("route", "GET",  <<"async-good">>,     "asyncGood",       TRUE),
       Layer("route", "POST", <<"users">>,          "createUser",      TRUE),
       Layer("route", "GET",  <<"users", ":id">>,   "getUser",         TRUE),
       Layer("route", "ALL",  <<"*">>,              "catchAll",        FALSE),
       Layer("error", "ALL",  <<"*">>,              "errorMiddleware", FALSE) >>

\* Path parameters of the registered routes.
Params == {":id"}

\* Express path matching: '*' matches every path, a parameter one segment.
PathMatches(pattern, url) ==
    \/ pattern = <<"*">>
    \/ /\ Len(pattern) = Len(url)
       /\ \A i \in 1..Len(pattern) : pattern[i] \in Params \/ pattern[i] = url[i]

\* Whether the router hands the request (with error e in flight, or none)
\* to this layer: error middleware only takes errors, the rest only none.
LayerApplies(layer, request, e) ==
    IF e.present
    THEN layer.kind = "error"
    ELSE /\ layer.kind # "error"
         /\ layer.method \in {"ALL", request.method}
         /\ PathMatches(layer.path, request.url)

\* The router's next(): the first applicable layer after `from`, 0 if none.
NextLayer(from, request, e) ==
    LET later == {j \in (from + 1)..Len(Stack) : LayerApplies(Stack[j], request, e)}
    IN  IF later = {} THEN 0 ELSE CHOOSE j \in later : \A k \in later : j <= k

\* req.url as text.
RECURSIVE UrlText(_)
UrlText(url) ==
    IF Len(url) = 0 THEN <<"/">>
    ELSE IF Len(url) = 1 THEN <<"/", url[1]>>
    ELSE <<"/", url[1]>> \o UrlText(Tail(url))

Request(method, url) == [method |-> method, url |-> url]

NoReq == Request("", <<>>)

\* The requests a client sends.
Requests ==
    { Request("GET",  <<>>),
      Request("GET",  <<"error-throw">>),
      Request("GET",  <<"next-error">>),
      Request("GET",  <<"async-bad">>),
      Request("GET",  <<"async-good">>),
      Request("POST", <<"users">>),
      Request("GET",  <<"users", "42">>),
      Request("GET",  <<"foo">>),
      Request("GET",  <<"users">>),
      Request("POST", <<"async-good">>) }

----------------------------------------------------------------------------
\* The failures the User model raises.

\* userSchema: the validators and their messages, in schema order.
userSchema ==
    << [field |-> "name",  message |-> Str(<<"Name is required">>)],
       [field |-> "email", message |-> Str(<<"Email is required">>)],
       [field |-> "age",   message |-> Str(<<"Age must be >= 0">>)] >>

SchemaFields == {userSchema[i].field : i \in 1..Len(userSchema)}

\* The ValidationError of a document whose fields F fail their validators.
ValidationErrorOf(F) ==
    [Error(Str(<<"User validation failed">>)) EXCEPT
        !.name = Str(<<"ValidationError">>),
        !.errors = [defined |-> TRUE,
                    entries |-> SelectSeq(userSchema, LAMBDA e : e.field \in F)]]

\* E11000 on the unique index of email.
DuplicateKeyError ==
    [Error(Str(<<"E11000 duplicate key error">>)) EXCEPT
        !.name = Str(<<"MongoServerError">>),
        !.code = Num(11000),
        !.keyValue = [defined |-> TRUE, keys |-> <<"email">>]]

\* An id that is not an ObjectId.
CastError ==
    [Error(Str(<<"Cast to ObjectId failed">>)) EXCEPT !.name = Str(<<"CastError">>)]

\* The database is unreachable.
ConnectionError ==
    [Error(Str(<<"connect ECONNREFUSED">>)) EXCEPT
        !.name = Str(<<"MongooseServerSelectionError">>)]

\* Rejections of User.find({})
FindErrors == {ConnectionError}

\* Rejections of User.create(req.body)
CreateErrors ==
    {ValidationErrorOf(F) : F \in (SUBSET SchemaFields) \ {{}}}
        \cup {DuplicateKeyError, ConnectionError}

\* Rejections of User.findById(id)
FindByIdErrors == {CastError, ConnectionError}

----------------------------------------------------------------------------
\* State of each request.

VARIABLES
    req,    \* the request, NoReq before it arrives
    pc,     \* "new", "run" (layer idx is about to run), "await" (its handler
            \* is suspended), "rejected" (its promise rejected with err),
            \* "hung" (nothing will run again, no response), "final"
            \* (Express's final handler is about to run), "done"
    idx,    \* index in Stack of the layer that has control
    err,    \* the error in flight, NoErr if none
    res,    \* the responses written, in order
    trace   \* what happened, in order: [ev, by, arg]

vars == <<req, pc, idx, err, res, trace>>

Event(ev, by, arg) == [ev |-> ev, by |-> by, arg |-> arg]

Init ==
    /\ req = [r \in Reqs |-> NoReq]
    /\ pc = [r \in Reqs |-> "new"]
    /\ idx = [r \in Reqs |-> 0]
    /\ err = [r \in Reqs |-> NoErr]
    /\ res = [r \in Reqs |-> <<>>]
    /\ trace = [r \in Reqs |-> <<>>]

\* The handler that has control of request r.
Running(r, handler) ==
    /\ pc[r] = "run"
    /\ Stack[idx[r]].handler = handler

Awaiting(r, handler) ==
    /\ pc[r] = "await"
    /\ Stack[idx[r]].handler = handler

\* next(e) called for request r after the events evs: control goes to the
\* next applicable layer, or to Express's final handler when there is none.
Forward(r, e, evs) ==
    LET j == NextLayer(idx[r], req[r], e)
    IN  /\ pc' = [pc EXCEPT ![r] = IF j = 0 THEN "final" ELSE "run"]
        /\ idx' = [idx EXCEPT ![r] = IF j = 0 THEN idx[r] ELSE j]
        /\ err' = [err EXCEPT ![r] = e]
        /\ trace' = [trace EXCEPT ![r] = @ \o evs]
        /\ UNCHANGED <<req, res>>

\* The handler writes a response and returns.
Respond(r, response, evs) ==
    /\ pc' = [pc EXCEPT ![r] = "done"]
    /\ res' = [res EXCEPT ![r] = Append(@, response)]
    /\ trace' = [trace EXCEPT ![r] = @ \o evs]
    /\ UNCHANGED <<req, idx, err>>

\* The async handler reaches its await and suspends.
Suspend(r) ==
    /\ pc' = [pc EXCEPT ![r] = "await"]
    /\ UNCHANGED <<req, idx, err, res, trace>>

\* The promise returned by the async handler rejects with e.
Reject(r, e) ==
    /\ pc' = [pc EXCEPT ![r] = "rejected"]
    /\ err' = [err EXCEPT ![r] = e]
    /\ trace' = [trace EXCEPT ![r] = Append(@, Event("reject", Stack[idx[r]].handler, e))]
    /\ UNCHANGED <<req, idx, res>>

----------------------------------------------------------------------------
\* A request arrives and the router gives it to the first applicable layer.
Arrive(r) ==
    /\ pc[r] = "new"
    /\ \E request \in Requests :
          LET j == NextLayer(0, request, NoErr)
          IN  /\ req' = [req EXCEPT ![r] = request]
              /\ pc' = [pc EXCEPT ![r] = "run"]
              /\ idx' = [idx EXCEPT ![r] = j]
              /\ UNCHANGED <<err, res, trace>>

\* app.use(express.json())
ExpressJson(r) ==
    /\ Running(r, "expressJson")
    /\ Forward(r, NoErr, <<Event("next", "expressJson", NoErr)>>)

\* Simple logger middleware
Logger(r) ==
    /\ Running(r, "logger")
    /\ Forward(r, NoErr, <<Event("next", "logger", NoErr)>>)

\* A successful response of a route handler.
Success(by, status) == Response("ok", by, Num(status), {}, Undef, Undef)

\* app.get('/')
Root(r) ==
    /\ Running(r, "root")
    /\ Respond(r, Success("root", 200), <<>>)

\* 1) Synchronous throw: the router catches it and calls next(err).
ErrorThrow(r) ==
    /\ Running(r, "errorThrow")
    /\ LET e == Error(Str(<<"Synchronous error thrown!">>))
       IN  Forward(r, e, <<Event("throw", "errorThrow", e), Event("next", "router", e)>>)

\* 2) next(err)
NextError(r) ==
    /\ Running(r, "nextError")
    /\ LET e == Error(Str(<<"Error passed with next()">>))
       IN  Forward(r, e, <<Event("next", "nextError", e)>>)

\* 3) Async handler without wrapper: await User.find({})
AsyncBad(r) ==
    /\ Running(r, "asyncBad")
    /\ Suspend(r)

AsyncBadResume(r) ==
    /\ Awaiting(r, "asyncBad")
    /\ Respond(r, Success("asyncBad", 200), <<Event("resolve", "asyncBad", NoErr)>>)

AsyncBadFail(r) ==
    /\ Awaiting(r, "asyncBad")
    /\ \E e \in FindErrors : Reject(r, e)

\* 4) Async handler with catchAsync: await Promise.reject(...)
AsyncGood(r) ==
    /\ Running(r, "asyncGood")
    /\ Reject(r, Error(Str(<<"Async failure insider catchAsync">>)))

\* 5) Create user: await User.create(req.body)
CreateUser(r) ==
    /\ Running(r, "createUser")
    /\ Suspend(r)

CreateUserResume(r) ==
    /\ Awaiting(r, "createUser")
    /\ Respond(r, Success("createUser", 201), <<Event("resolve", "createUser", NoErr)>>)

CreateUserFail(r) ==
    /\ Awaiting(r, "createUser")
    /\ \E e \in CreateErrors : Reject(r, e)

\* 6) Get user by id: await User.findById(id)
GetUser(r) ==
    /\ Running(r, "getUser")
    /\ Suspend(r)

\* user found
GetUserFound(r) ==
    /\ Awaiting(r, "getUser")
    /\ Respond(r, Success("getUser", 200), <<Event("resolve", "getUser", NoErr)>>)

\* if (!user) return next(new AppError('User Not Found', 404))
GetUserNotFound(r) ==
    /\ Awaiting(r, "getUser")
    /\ LET e == AppError(Str(<<"User Not Found">>), Num(404))
       IN  Forward(r, e, <<Event("next", "getUser", e), Event("resolve", "getUser", NoErr)>>)

GetUserFail(r) ==
    /\ Awaiting(r, "getUser")
    /\ \E e \in FindByIdErrors : Reject(r, e)

\* Faulty variant: .catch(() => next()), the failure is dropped.
catchAsync_DropsError(r) ==
    /\ pc[r] = "rejected"
    /\ Stack[idx[r]].wrapped
    /\ Forward(r, NoErr, <<Event("next", "catchAsync", NoErr)>>)

\* Faulty variant: .then(() => next(), (err) => next(err)), so next is also
\* called when the handler's promise resolves.
catchAsync_AlsoOnResolve(r) ==
    \/ /\ pc[r] = "rejected"
       /\ Stack[idx[r]].wrapped
       /\ Forward(r, err[r], <<Event("next", "catchAsync", err[r])>>)
    \/ /\ pc[r] = "done"
       /\ Stack[idx[r]].wrapped
       /\ SelectSeq(trace[r], LAMBDA x : x.by = "catchAsync") = <<>>
       /\ Forward(r, NoErr, <<Event("next", "catchAsync", NoErr)>>)

\* catchAsync: fn(req, res, next).catch((err) => next(err))
catchAsync(r) ==
    /\ pc[r] = "rejected"
    /\ Stack[idx[r]].wrapped
    /\ Forward(r, err[r], <<Event("next", "catchAsync", err[r])>>)

\* A rejected promise nobody handles: the request is never answered.
UnhandledRejection(r) ==
    /\ pc[r] = "rejected"
    /\ ~Stack[idx[r]].wrapped
    /\ pc' = [pc EXCEPT ![r] = "hung"]
    /\ trace' = [trace EXCEPT ![r] =
                    Append(@, Event("unhandledRejection", Stack[idx[r]].handler, err[r]))]
    /\ UNCHANGED <<req, idx, err, res>>

\* Faulty variant: the message does not name the url.
CatchAll_WithoutUrl(r) ==
    /\ Running(r, "catchAll")
    /\ LET e == AppError(Str(<<"Can't find ">> \o <<" on this server">>), Num(404))
       IN  Forward(r, e, <<Event("next", "catchAll", e)>>)

\* 404 handler for unknown routes
CatchAll(r) ==
    /\ Running(r, "catchAll")
    /\ LET e == AppError(Str(<<"Can't find ">> \o UrlText(req[r].url)
                               \o <<" on this server">>), Num(404))
       IN  Forward(r, e, <<Event("next", "catchAll", e)>>)

\* Faulty variant: console.error is given the working copy, after the checks.
ErrorMiddleware_LogsClassified(r) ==
    /\ Running(r, "errorMiddleware")
    /\ LET st == Classify(err[r])
       IN  IF st.threw
           THEN Forward(r, TypeError,
                        <<Event("throw", "errorMiddleware", TypeError),
                          Event("next", "router", TypeError)>>)
           ELSE /\ pc' = [pc EXCEPT ![r] = "done"]
                /\ res' = [res EXCEPT ![r] = Append(@, ErrorResponse(st.error))]
                /\ err' = [err EXCEPT ![r] = st.original]
                /\ trace' = [trace EXCEPT ![r] =
                                @ \o <<Event("log", "errorMiddleware", st.error),
                                       Event("json", "errorMiddleware", st.error)>>]
                /\ UNCHANGED <<req, idx>>

\* Faulty variant: the error middleware answers from a variable shared by
\* all requests, which holds the error the first request came with.
ErrorMiddleware_SharedError(r) ==
    /\ Running(r, "errorMiddleware")
    /\ LET st == Classify(err[1])
           log == Event("log", "errorMiddleware", err[r])
       IN  IF st.threw
           THEN Forward(r, TypeError,
                        <<log, Event("throw", "errorMiddleware", TypeError),
                          Event("next", "router", TypeError)>>)
           ELSE /\ pc' = [pc EXCEPT ![r] = "done"]
                /\ res' = [res EXCEPT ![r] = Append(@, ErrorResponse(st.error))]
                /\ trace' = [trace EXCEPT ![r] =
                                @ \o <<log, Event("json", "errorMiddleware", st.error)>>]
                /\ UNCHANGED <<req, idx, err>>

\* CENTRALIZED ERROR HANDLING MIDDLEWARE: log, classify, respond.  A throw
\* inside it is caught by the router, which calls next with what was thrown.
\* After the response err[r] is the object err refers to, as the handler
\* left it.
ErrorMiddleware(r) ==
    /\ Running(r, "errorMiddleware")
    /\ LET st == Classify(err[r])
           log == Event("log", "errorMiddleware", err[r])
       IN  IF st.threw
           THEN Forward(r, TypeError,
                        <<log, Event("throw", "errorMiddleware", TypeError),
                          Event("next", "router", TypeError)>>)
           ELSE /\ pc' = [pc EXCEPT ![r] = "done"]
                /\ res' = [res EXCEPT ![r] = Append(@, ErrorResponse(st.error))]
                /\ err' = [err EXCEPT ![r] = st.original]
                /\ trace' = [trace EXCEPT ![r] =
                                @ \o <<log, Event("json", "errorMiddleware", st.error)>>]
                /\ UNCHANGED <<req, idx>>

\* Express's final handler: no layer is left to take the request.
FinalHandler(r) ==
    /\ pc[r] = "final"
    /\ Respond(r, Response("html", "finalhandler",
                           IF err[r].present THEN Or(err[r].statusCode, Num(500))
                                             ELSE Num(404),
                           {}, Undef, Undef), <<>>)

Next ==
    \E r \in Reqs :
        \/ Arrive(r)
        \/ ExpressJson(r)
        \/ Logger(r)
        \/ Root(r)
        \/ ErrorThrow(r)
        \/ NextError(r)
        \/ AsyncBad(r)
        \/ AsyncBadResume(r)
        \/ AsyncBadFail(r)
        \/ AsyncGood(r)
        \/ CreateUser(r)
        \/ CreateUserResume(r)
        \/ CreateUserFail(r)
        \/ GetUser(r)
        \/ GetUserFound(r)
        \/ GetUserNotFound(r)
        \/ GetUserFail(r)
        \/ catchAsync(r)
        \/ UnhandledRejection(r)
        \/ CatchAll(r)
        \/ ErrorMiddleware(r)

Spec == Init /\ [][Next]_vars

----------------------------------------------------------------------------
\* The centralized error middleware on error values of arbitrary shape:
\* whatever a caller of next(err) may hand over.

ErrNames == {"Error", "CastError", "ValidationError", "DocumentNotFoundError"}

ErrMessages == {Undef, Str(<<>>), Str(<<"User Not Found">>), Num(42)}

ErrCodes == {Undef, Num(11000), Num(11001)}

ErrStatusCodes == {Undef, Num(0), Num(404), Str(<<"404">>)}

FieldError(field, text) == [field |-> field, message |-> Str(text)]

ErrErrors ==
    { NoErrors,
      [defined |-> TRUE, entries |-> <<>>],
      [defined |-> TRUE, entries |-> <<FieldError("a", <<>>)>>],
      [defined |-> TRUE, entries |-> <<FieldError("a", <<"A invalid">>)>>],
      [defined |-> TRUE, entries |-> <<FieldError("a", <<"A invalid">>),
                                       FieldError("b", <<"B invalid">>)>>],
      [defined |-> TRUE, entries |-> <<FieldError("b", <<"B invalid">>),
                                       FieldError("a", <<"A invalid">>)>>] }

ErrKeyValues ==
    { NoKeyValue,
      [defined |-> TRUE, keys |-> <<>>],
      [defined |-> TRUE, keys |-> <<"email">>],
      [defined |-> TRUE, keys |-> <<"email", "name">>] }

ErrValues ==
    { [present |-> TRUE, name |-> Str(<<n>>), message |-> m, code |-> c,
       statusCode |-> sc, isOperational |-> op, errors |-> es, keyValue |-> kv] :
        n \in ErrNames, m \in ErrMessages, c \in ErrCodes, sc \in ErrStatusCodes,
        op \in BOOLEAN, es \in ErrErrors, kv \in ErrKeyValues }

\* The error middleware's place in the stack.
ErrorLayer == CHOOSE j \in 1..Len(Stack) : Stack[j].kind = "error"

\* Request 1 has just been handed to the error middleware with some error.
InitMw ==
    /\ req = [r \in Reqs |-> IF r = 1 THEN Request("POST", <<"users">>) ELSE NoReq]
    /\ pc = [r \in Reqs |-> IF r = 1 THEN "run" ELSE "new"]
    /\ idx = [r \in Reqs |-> IF r = 1 THEN ErrorLayer ELSE 0]
    /\ \E e \in ErrValues : err = [r \in Reqs |-> IF r = 1 THEN e ELSE NoErr]
    /\ res = [r \in Reqs |-> <<>>]
    /\ trace = [r \in Reqs |-> <<>>]

NextMw ==
    \E r \in Reqs :
        \/ ErrorMiddleware(r)
        \/ FinalHandler(r)

SpecMw == InitMw /\ [][NextMw]_vars

----------------------------------------------------------------------------
\* Properties.

EventsOf(r, ev, by) == SelectSeq(trace[r], LAMBDA x : x.ev = ev /\ x.by = by)

\* The centralized error middleware has run for request r.
Handled(r) == EventsOf(r, "log", "errorMiddleware") # <<>>

\* The error it was given.
Received(r) == EventsOf(r, "log", "errorMiddleware")[1].arg

\* The responses it wrote.
MwResponses(r) == SelectSeq(res[r], LAMBDA x : x.by = "errorMiddleware")

\* Request r got exactly one response, written by the error middleware,
\* with this status and this message.
Answered(r, status, message) ==
    /\ Len(res[r]) = 1
    /\ res[r][1].by = "errorMiddleware"
    /\ res[r][1].kind = "json"
    /\ res[r][1].status = Num(status)
    /\ res[r][1].statusCode = Num(status)
    /\ res[r][1].message = Str(message)

\* The request is over: no step of it is left.
Settled(r) == pc[r] \in {"done", "hung"}

\* The handlers registered through catchAsync.
WrappedHandlers == {Stack[j].handler : j \in {k \in 1..Len(Stack) : Stack[k].wrapped}}

\* C1: when the promise of a handler wrapped by catchAsync rejects with e,
\* the wrapper calls next exactly once, with e, and the rejection is handled.
C1_RejectionForwardedOnce ==
    \A r \in Reqs :
        LET rejections == SelectSeq(trace[r], LAMBDA x :
                              x.ev = "reject" /\ x.by \in WrappedHandlers)
            forwards == EventsOf(r, "next", "catchAsync")
        IN  /\ Len(forwards) <= 1
            /\ (rejections # <<>> /\ pc[r] # "rejected") \/ forwards # <<>>
               => /\ Len(rejections) = 1
                  /\ forwards = <<Event("next", "catchAsync", rejections[1].arg)>>
                  /\ pc[r] # "hung"
                  /\ \A i \in 1..Len(trace[r]) : trace[r][i].ev # "unhandledRejection"

\* C1 witness: a rejection of User.create was forwarded and answered.
C1_Witness ==
    \E r \in Reqs :
        /\ pc[r] = "done"
        /\ EventsOf(r, "reject", "createUser") # <<>>
        /\ EventsOf(r, "next", "catchAsync") = <<Event("next", "catchAsync", DuplicateKeyError)>>

\* C2: every error value handed to the centralized error middleware gets
\* exactly one response from it; it does not throw and does not call next.
C2_MiddlewareAlwaysResponds ==
    \A r \in Reqs :
        Handled(r) =>
            /\ Len(res[r]) = 1
            /\ res[r][1].by = "errorMiddleware"
            /\ EventsOf(r, "throw", "errorMiddleware") = <<>>
            /\ pc[r] = "done"

\* The handler of request r failed: it threw, its promise rejected, or it
\* passed an error to next.
Failed(r) ==
    \E i \in 1..Len(trace[r]) :
        \/ trace[r][i].ev \in {"throw", "reject"}
        \/ trace[r][i].ev = "next" /\ trace[r][i].arg.present

\* C3: on every route a failure of the handler reaches the centralized error
\* middleware and the request gets exactly one JSON response; none hangs.
C3_EveryFailureAnswered ==
    \A r \in Reqs :
        Failed(r) /\ Settled(r) =>
            /\ pc[r] = "done"
            /\ Len(EventsOf(r, "log", "errorMiddleware")) = 1
            /\ Len(res[r]) = 1
            /\ res[r][1].kind = "json"

\* C4 as stated: every error named CastError is answered 400 'Invalid ID
\* format', whatever its other fields.
C4_CastErrorAlways ==
    \A r \in Reqs :
        Handled(r) /\ IsStr(Received(r).name, "CastError")
            => Answered(r, 400, <<"Invalid ID format">>)

\* C4 amended: every error named CastError whose code is not 11000 is
\* answered 400 'Invalid ID format', whatever its other fields.
C4_CastErrorUnlessDuplicateKey ==
    \A r \in Reqs :
        Handled(r) /\ IsStr(Received(r).name, "CastError")
                   /\ ~IsNum(Received(r).code, 11000)
            => Answered(r, 400, <<"Invalid ID format">>)

\* C4 witness: a CastError carrying a status, a message and field errors.
C4_Witness ==
    \E r \in Reqs :
        /\ Handled(r)
        /\ IsStr(Received(r).name, "CastError")
        /\ Received(r).code = Num(11001)
        /\ Received(r).statusCode = Num(404)
        /\ Received(r).errors.defined
        /\ Answered(r, 400, <<"Invalid ID format">>)

RECURSIVE JoinedMessages(_)
\* The per-field messages in the map's order, separated by '. '.
JoinedMessages(entries) ==
    IF entries = <<>> THEN <<>>
    ELSE LET front == SubSeq(entries, 1, Len(entries) - 1)
             last == entries[Len(entries)].message.s
         IN  IF front = <<>> THEN last
             ELSE JoinedMessages(front) \o <<". ">> \o last

\* C5 as stated: every ValidationError with a map of field errors is
\* answered 400 with the per-field messages joined by '. '.
C5_ValidationErrorAlways ==
    \A r \in Reqs :
        Handled(r) /\ IsStr(Received(r).name, "ValidationError")
                   /\ Received(r).errors.defined
            => Answered(r, 400, JoinedMessages(Received(r).errors.entries))

\* C5 amended: a ValidationError with a map of field errors, a code other
\* than 11000 and a non-empty joined text is answered 400 with the per-field
\* messages in map order joined by '. '; {a: 'A invalid', b: 'B invalid'}
\* gives 'A invalid. B invalid'.  With an empty joined text the answer is 400
\* with the fallback message.
C5_ValidationErrorJoined ==
    \A r \in Reqs :
        Handled(r) /\ IsStr(Received(r).name, "ValidationError")
                   /\ Received(r).errors.defined
                   /\ ~IsNum(Received(r).code, 11000)
            => LET entries == Received(r).errors.entries
               IN  /\ JoinedMessages(entries) # <<>>
                        => Answered(r, 400, JoinedMessages(entries))
                   /\ JoinedMessages(entries) = <<>>
                        => Answered(r, 400, <<"Something went wrong">>)
                   /\ entries = <<FieldError("a", <<"A invalid">>),
                                  FieldError("b", <<"B invalid">>)>>
                        => Answered(r, 400, <<"A invalid", ". ", "B invalid">>)

\* C5 witness: fields {a: 'A invalid', b: 'B invalid'} were answered.
C5_Witness ==
    \E r \in Reqs :
        /\ Handled(r)
        /\ IsStr(Received(r).name, "ValidationError")
        /\ Received(r).errors.entries = <<FieldError("a", <<"A invalid">>),
                                          FieldError("b", <<"B invalid">>)>>
        /\ Answered(r, 400, <<"A invalid", ". ", "B invalid">>)

\* part occurs in whole as a contiguous run of tokens.
Contains(whole, part) ==
    \E i \in 0..(Len(whole) - Len(part)) :
        \A k \in 1..Len(part) : whole[i + k] = part[k]

\* The response names every field of the conflict payload.
NamesEveryKey(response, keyValue) ==
    /\ response.message.t = "string"
    /\ \A i \in 1..Len(keyValue.keys) : Contains(response.message.s, <<keyValue.keys[i]>>)

C7_DocumentNotFound ==
    \A r \in Reqs :
        Handled(r) /\ IsStr(Received(r).name, "DocumentNotFoundError")
            => Answered(r, 404, <<"Requested document not found">>)

\* C7 witness: a DocumentNotFoundError that also carries code 11000, a
\* statusCode and field errors.
C7_Witness ==
    \E r \in Reqs :
        /\ Handled(r)
        /\ IsStr(Received(r).name, "DocumentNotFoundError")
        /\ IsNum(Received(r).code, 11000)
        /\ Received(r).errors.defined
        /\ Received(r).keyValue.defined
        /\ Answered(r, 404, <<"Requested document not found">>)

\* The error matches none of the four shapes and is not an Application Error.
Unclassified(e) ==
    /\ ~IsStr(e.name, "CastError")
    /\ ~IsStr(e.name, "ValidationError")
    /\ ~IsStr(e.name, "DocumentNotFoundError")
    /\ ~IsNum(e.code, 11000)
    /\ ~e.isOperational

\* C8 as stated: an unclassified error without a message is answered 500
\* with the fallback message, whatever its other fields.
C8_UnclassifiedAlways500 ==
    \A r \in Reqs :
        Handled(r) /\ Unclassified(Received(r)) /\ ~Truthy(Received(r).message)
            => Answered(r, 500, <<"Something went wrong">>)

\* C8 amended: an unclassified error without a message is answered with the
\* fallback message, and with status 500 unless it carries a truthy
\* statusCode of its own, which is then the status.
C8_UnclassifiedFallback ==
    \A r \in Reqs :
        Handled(r) /\ Unclassified(Received(r)) /\ ~Truthy(Received(r).message)
            => IF Truthy(Received(r).statusCode)
               THEN /\ Len(res[r]) = 1
                    /\ res[r][1].by = "errorMiddleware"
                    /\ res[r][1].status = Received(r).statusCode
                    /\ res[r][1].statusCode = Received(r).statusCode
                    /\ res[r][1].message = Str(<<"Something went wrong">>)
               ELSE Answered(r, 500, <<"Something went wrong">>)

\* C8 witness: an error with no message, no status, but other fields.
C8_Witness ==
    \E r \in Reqs :
        /\ Handled(r)
        /\ Unclassified(Received(r))
        /\ Received(r).message = Undef
        /\ Received(r).statusCode = Undef
        /\ Received(r).keyValue.defined
        /\ Received(r).errors.defined
        /\ Answered(r, 500, <<"Something went wrong">>)

\* The request matches one of the routes registered before the catch-all.
MatchesRegisteredRoute(request) ==
    \E j \in 1..Len(Stack) :
        /\ Stack[j].kind = "route"
        /\ Stack[j].handler # "catchAll"
        /\ Stack[j].method = request.method
        /\ PathMatches(Stack[j].path, request.url)

\* C9: a request matching no registered route is forwarded by the catch-all
\* as an Application Error and answered once, 404, with a message containing
\* its path; a request matching a registered route never reaches the catch-all.
C9_UnmatchedRoute ==
    \A r \in Reqs :
        LET byCatchAll == SelectSeq(trace[r], LAMBDA x : x.by = "catchAll")
        IN  /\ Len(res[r]) <= 1
            /\ req[r] # NoReq /\ MatchesRegisteredRoute(req[r])
                  => /\ byCatchAll = <<>>
                     /\ \A i \in 1..Len(res[r]) :
                            ~Contains(res[r][i].message.s, <<"Can't find ">>)
            /\ req[r] # NoReq /\ ~MatchesRegisteredRoute(req[r]) /\ Settled(r)
                  => /\ Len(byCatchAll) = 1
                     /\ byCatchAll[1].ev = "next"
                     /\ byCatchAll[1].arg.isOperational
                     /\ Received(r) = byCatchAll[1].arg
                     /\ Len(res[r]) = 1
                     /\ res[r][1].by = "errorMiddleware"
                     /\ res[r][1].status = Num(404)
                     /\ res[r][1].statusCode = Num(404)
                     /\ Contains(res[r][1].message.s, UrlText(req[r].url))

\* C9 witness: POST /async-good, a path registered for GET only, answered 404.
C9_Witness ==
    \E r \in Reqs :
        /\ req[r] = Request("POST", <<"async-good">>)
        /\ Answered(r, 404, <<"Can't find ", "/", "async-good", " on this server">>)

\* The error carries none of the external shape tags.
Untagged(e) ==
    /\ ~IsStr(e.name, "CastError")
    /\ ~IsStr(e.name, "ValidationError")
    /\ ~IsStr(e.name, "DocumentNotFoundError")
    /\ ~IsNum(e.code, 11000)

\* An Application Error: a string message and an HTTP status.
IsApplicationError(e) ==
    /\ e.isOperational
    /\ e.message.t = "string"
    /\ e.statusCode.t = "number" /\ e.statusCode.n # 0

\* C10 as stated: an untagged Application Error with message m and status s
\* is answered with status s and message m.
C10_AppErrorUnchanged ==
    \A r \in Reqs :
        Handled(r) /\ IsApplicationError(Received(r)) /\ Untagged(Received(r))
            => Answered(r, Received(r).statusCode.n, Received(r).message.s)

\* C10 amended: an untagged Application Error with a non-empty message m and
\* status s is answered with status s and message m; with an empty message
\* it is answered with status s and the fallback message.
C10_AppErrorNonEmptyMessage ==
    \A r \in Reqs :
        Handled(r) /\ IsApplicationError(Received(r)) /\ Untagged(Received(r))
            => IF Received(r).message.s # <<>>
               THEN Answered(r, Received(r).statusCode.n, Received(r).message.s)
               ELSE Answered(r, Received(r).statusCode.n, <<"Something went wrong">>)

\* C10 witness: AppError('User Not Found', 404) answered as is.
C10_Witness ==
    \E r \in Reqs :
        /\ Handled(r)
        /\ Received(r).isOperational
        /\ Untagged(Received(r))
        /\ Received(r).message = Str(<<"User Not Found">>)
        /\ Received(r).statusCode = Num(404)
        /\ Answered(r, 404, <<"User Not Found">>)

\* C11: every body the centralized error middleware writes has exactly the
\* two fields statusCode and message, statusCode a number and message a
\* string, whatever error it was given.
C11_BodyShape ==
    \A r \in Reqs :
        \A i \in 1..Len(res[r]) :
            res[r][i].by = "errorMiddleware"
                => /\ res[r][i].fields = {"statusCode", "message"}
                   /\ res[r][i].statusCode.t = "number"
                   /\ res[r][i].message.t = "string"

\* C12: the pipeline keeps nothing between requests: in every interleaving,
\* two requests that failed with equal errors got identical responses.
C12_NoCrossRequestState ==
    \A r1, r2 \in Reqs :
        Handled(r1) /\ Handled(r2) /\ Received(r1) = Received(r2)
            => /\ Len(res[r1]) = 1
               /\ res[r1] = res[r2]

\* C12 witness: two requests failed validation of the same fields, and both
\* were answered.
C12_Witness ==
    \E r1, r2 \in Reqs :
        /\ r1 # r2
        /\ Handled(r1) /\ Handled(r2)
        /\ Received(r1) = ValidationErrorOf({"name", "age"})
        /\ Received(r2) = ValidationErrorOf({"name", "age"})
        /\ Answered(r1, 400, <<"Name is required", ". ", "Age must be >= 0">>)
        /\ Answered(r2, 400, <<"Name is required", ". ", "Age must be >= 0">>)

\* The number of shape rules the error matches.
RulesMatched(e) ==
    (IF IsStr(e.name, "CastError") THEN 1 ELSE 0)
      + (IF IsStr(e.name, "ValidationError") THEN 1 ELSE 0)
      + (IF IsNum(e.code, 11000) THEN 1 ELSE 0)
      + (IF IsStr(e.name, "DocumentNotFoundError") THEN 1 ELSE 0)

\* C13: an error that matches more than one shape rule is answered by the
\* last rule it matches, in the order invalid-identifier, field-validation,
\* uniqueness-conflict, not-found.
C13_LastMatchWins ==
    \A r \in Reqs :
        Handled(r) /\ RulesMatched(Received(r)) > 1
            => IF IsStr(Received(r).name, "DocumentNotFoundError")
               THEN Answered(r, 404, <<"Requested document not found">>)
               ELSE /\ Len(res[r]) = 1
                    /\ res[r][1].by = "errorMiddleware"
                    /\ res[r][1].status = Num(400)
                    /\ res[r][1].message.t = "string"
                    /\ SubSeq(res[r][1].message.s, 1, 1) = <<"Duplicate field value: ">>

\* C14: when the promise of a wrapped handler resolves the wrapper does not
\* call next; GET /users/:id with no user delivers its AppError to the
\* centralized error middleware once and is answered once.
C14_ResolvedNotForwarded ==
    \A r \in Reqs :
        LET resolved == SelectSeq(trace[r], LAMBDA x :
                            x.ev = "resolve" /\ x.by \in WrappedHandlers)
            notFound == AppError(Str(<<"User Not Found">>), Num(404))
        IN  /\ resolved # <<>>
                => SelectSeq(trace[r], LAMBDA x : x.by = "catchAsync") = <<>>
            /\ EventsOf(r, "next", "getUser") # <<>>
                => /\ EventsOf(r, "next", "getUser") = <<Event("next", "getUser", notFound)>>
                   /\ SelectSeq(trace[r], LAMBDA x : x.ev = "next" /\ x.arg.present)
                          = <<Event("next", "getUser", notFound)>>
                   /\ Len(res[r]) <= 1
                   /\ Settled(r)
                        => /\ EventsOf(r, "log", "errorMiddleware")
                                 = <<Event("log", "errorMiddleware", notFound)>>
                           /\ Answered(r, 404, <<"User Not Found">>)

\* C14 witness: GET /users/42 found no user and was answered 404.
C14_Witness ==
    \E r \in Reqs :
        /\ req[r] = Request("GET", <<"users", "42">>)
        /\ EventsOf(r, "resolve", "getUser") # <<>>
        /\ EventsOf(r, "next", "getUser") # <<>>
        /\ Answered(r, 404, <<"User Not Found">>)

\* C15: the error middleware logs the error it was given, unmodified, exactly
\* once, and before it writes the response, also when it reclassifies it.
C15_LoggedOnceBeforeResponse ==
    [][\A r \in Reqs :
          Running(r, "errorMiddleware") /\ trace'[r] # trace[r]
              => LET added == SubSeq(trace'[r], Len(trace[r]) + 1, Len(trace'[r]))
                 IN  /\ added[1] = Event("log", "errorMiddleware", err[r])
                     /\ \A i \in 2..Len(added) : added[i].ev # "log"
                     /\ EventsOf(r, "log", "errorMiddleware") = <<>>
                     /\ res'[r] # res[r]
                          => /\ Len(added) = 2
                             /\ added[2].ev = "json"]_vars

\* C15 witness: a CastError with a message of its own was logged as given and
\* then answered 'Invalid ID format'.
C15_Witness ==
    \E r \in Reqs :
        /\ Len(trace[r]) = 2
        /\ trace[r][1].ev = "log"
        /\ IsStr(trace[r][1].arg.name, "CastError")
        /\ trace[r][1].arg.message = Str(<<"User Not Found">>)
        /\ trace[r][2].ev = "json"
        /\ Answered(r, 400, <<"Invalid ID format">>)

\* C16: after the error middleware has responded, the error object it was
\* given has every field as on entry.
C16_ErrorNotMutated ==
    \A r \in Reqs :
        Handled(r) /\ MwResponses(r) # <<>>
            => err[r] = Received(r)

\* C16 witness: a CastError carrying statusCode 404 was answered 400 and
\* still carries 404 and its own message.
C16_Witness ==
    \E r \in Reqs :
        /\ Handled(r)
        /\ Answered(r, 400, <<"Invalid ID format">>)
        /\ IsStr(err[r].name, "CastError")
        /\ err[r].statusCode = Num(404)
        /\ err[r].message = Str(<<"User Not Found">>)
        /\ err[r].errors.defined

----------------------------------------------------------------------------
\* The basic routing application: a global middleware, six routes and a
\* fallback middleware.

\* app.use / app.get / app.post in registration order.
BasicStack ==
    << Layer("use",   "ALL",  <<"*">>,                                "globalMiddleware", FALSE),
       Layer("route", "GET",  <<>>,                                   "home",             FALSE),
       Layer("route", "GET",  <<"about">>,                            "about",            FALSE),
       Layer("route", "POST", <<"contact">>,                          "contact",          FALSE),
       Layer("route", "GET",  <<"user", ":id">>,                      "userProfile",      FALSE),
       Layer("route", "GET",  <<"user", ":userId", "post", ":postId">>, "userPost",       FALSE),
       Layer("route", "GET",  <<"search">>,                           "search",           FALSE),
       Layer("use",   "ALL",  <<"*">>,                                "fallback",         FALSE) >>

\* Path parameters of its routes.
BasicParams == {":id", ":userId", ":postId"}

\* Express path matching for its routes.
BasicPathMatches(pattern, url) ==
    \/ pattern = <<"*">>
    \/ /\ Len(pattern) = Len(url)
       /\ \A i \in 1..Len(pattern) : pattern[i] \in BasicParams \/ pattern[i] = url[i]

\* Whether the router hands the request to this layer.
BasicLayerApplies(layer, request) ==
    /\ layer.method \in {"ALL", request.method}
    /\ BasicPathMatches(layer.path, request.url)

\* The router's next(): the first applicable layer after `from`, 0 if none.
BasicNextLayer(from, request) ==
    LET later == {j \in (from + 1)..Len(BasicStack) :
                     BasicLayerApplies(BasicStack[j], request)}
    IN  IF later = {} THEN 0 ELSE CHOOSE j \in later : \A k \in later : j <= k

\* The requests a client sends to it.
BasicRequests ==
    { Request("GET",  <<>>),
      Request("GET",  <<"about">>),
      Request("POST", <<"contact">>),
      Request("GET",  <<"user", "7">>),
      Request("GET",  <<"user", "7", "post", "9">>),
      Request("GET",  <<"search">>),
      Request("GET",  <<"nope">>),
      Request("GET",  <<"contact">>),
      Request("POST", <<"about">>),
      Request("GET",  <<"user", "7", "post">>) }

BasicRunning(r, handler) ==
    /\ pc[r] = "run"
    /\ BasicStack[idx[r]].handler = handler

\* A request arrives and the router gives it to the first applicable layer.
BasicArrive(r) ==
    /\ pc[r] = "new"
    /\ \E request \in BasicRequests :
          LET j == BasicNextLayer(0, request)
          IN  /\ req' = [req EXCEPT ![r] = request]
              /\ pc' = [pc EXCEPT ![r] = "run"]
              /\ idx' = [idx EXCEPT ![r] = j]
              /\ UNCHANGED <<err, res, trace>>

\* res.send(body): status 200 unless res.status was called.
Sent(by, status, body) == Response("text", by, Num(status), {}, Undef, Str(body))

\* Faulty variant: the global middleware returns without calling next().
GlobalMiddleware_NoNext(r) ==
    /\ BasicRunning(r, "globalMiddleware")
    /\ pc' = [pc EXCEPT ![r] = "hung"]
    /\ trace' = [trace EXCEPT ![r] = Append(@, Event("log", "globalMiddleware", NoErr))]
    /\ UNCHANGED <<req, idx, err, res>>

\* Global Middleware: logs the request, then next().
GlobalMiddleware(r) ==
    /\ BasicRunning(r, "globalMiddleware")
    /\ LET j == BasicNextLayer(idx[r], req[r])
       IN  /\ pc' = [pc EXCEPT ![r] = IF j = 0 THEN "final" ELSE "run"]
           /\ idx' = [idx EXCEPT ![r] = IF j = 0 THEN idx[r] ELSE j]
           /\ trace' = [trace EXCEPT ![r] =
                           @ \o <<Event("log", "globalMiddleware", NoErr),
                                  Event("next", "globalMiddleware", NoErr)>>]
           /\ UNCHANGED <<req, err, res>>

\* app.get('/')
Home(r) ==
    /\ BasicRunning(r, "home")
    /\ Respond(r, Sent("home", 200, <<"Home Page">>), <<>>)

\* app.get('/about')
About(r) ==
    /\ BasicRunning(r, "about")
    /\ Respond(r, Sent("about", 200, <<"About Page">>), <<>>)

\* app.post('/contact')
Contact(r) ==
    /\ BasicRunning(r, "contact")
    /\ Respond(r, Sent("contact", 200, <<"Contact Form Submitted">>), <<>>)

\* app.get('/user/:id')
UserProfile(r) ==
    /\ BasicRunning(r, "userProfile")
    /\ Respond(r, Sent("userProfile", 200,
                       <<"<h1>Profile of User with userId: ", req[r].url[2], "<h1>">>), <<>>)

\* app.get('/user/:userId/post/:postId')
UserPost(r) ==
    /\ BasicRunning(r, "userPost")
    /\ Respond(r, Sent("userPost", 200,
                       <<"<h1>Post (postId: ", req[r].url[4],
                         ") of User with userId: ", req[r].url[2], "<h1>">>), <<>>)

\* app.get('/search'): the request carries no query string.
Search(r) ==
    /\ BasicRunning(r, "search")
    /\ Respond(r, Sent("search", 200,
                       <<"Search Results for \"", "undefined", "\" in \"",
                         "undefined", "\" language.">>), <<>>)

\* Fallback Middleware
FallbackMiddleware(r) ==
    /\ BasicRunning(r, "fallback")
    /\ Respond(r, Sent("fallback", 404, <<"404 - Page Not Found">>), <<>>)

NextBasic ==
    \E r \in Reqs :
        \/ BasicArrive(r)
        \/ GlobalMiddleware(r)
        \/ Home(r)
        \/ About(r)
        \/ Contact(r)
        \/ UserProfile(r)
        \/ UserPost(r)
        \/ Search(r)
        \/ FallbackMiddleware(r)

SpecBasic == Init /\ [][NextBasic]_vars

\* The route of the basic application the request matches, 0 if none.
BasicRouteOf(request) ==
    LET routes == {j \in 1..Len(BasicStack) :
                      /\ BasicStack[j].kind = "route"
                      /\ BasicStack[j].method = request.method
                      /\ BasicPathMatches(BasicStack[j].path, request.url)}
    IN  IF routes = {} THEN 0 ELSE CHOOSE j \in routes : TRUE

\* C17: in the basic routing application every request gets exactly one
\* response: the global middleware calls next exactly once and never
\* responds, a request matching a route is answered by that route's handler
\* only, and a request matching no route is answered 404 by the fallback.
C17_BasicOneResponse ==
    \A r \in Reqs :
        /\ pc[r] \in {"new", "run", "done"}
        /\ pc[r] = "run" => idx[r] \in 1..Len(BasicStack)
        /\ Len(res[r]) = (IF pc[r] = "done" THEN 1 ELSE 0)
        /\ \A i \in 1..Len(res[r]) : res[r][i].by # "globalMiddleware"
        /\ Len(EventsOf(r, "next", "globalMiddleware"))
              = (IF pc[r] = "new" \/ BasicRunning(r, "globalMiddleware") THEN 0 ELSE 1)
        /\ pc[r] = "done"
              => LET j == BasicRouteOf(req[r])
                 IN  IF j = 0
                     THEN /\ res[r][1].by = "fallback"
                          /\ res[r][1].status = Num(404)
                     ELSE /\ res[r][1].by = BasicStack[j].handler
                          /\ res[r][1].status = Num(200)

\* C17 witness: one request was answered by the post route, another, for a
\* path registered under another method, by the fallback.
C17_Witness ==
    \E r1, r2 \in Reqs :
        /\ req[r1] = Request("GET", <<"user", "7", "post", "9">>)
        /\ pc[r1] = "done" /\ res[r1][1].by = "userPost"
        /\ req[r2] = Request("POST", <<"about">>)
        /\ pc[r2] = "done" /\ res[r2][1].by = "fallback" /\ res[r2][1].status = Num(404)

====
